---- MODULE Spec2Model ----
(***************************************************************************)
(* Missionaries and Cannibals: the puzzle model (model.py) and the game    *)
(* controller (controller.py).                                             *)
(*                                                                         *)
(* Python values that a handler can return or raise are modelled as a      *)
(* record [raised, value]: raised = TRUE is an uncaught exception (the     *)
(* only one the modelled code can raise is TypeError).                     *)
(*                                                                         *)
(* Times are in milliseconds: pygame's Clock.tick returns whole            *)
(* milliseconds and run() divides them by 1000.0.                          *)
(***************************************************************************)
EXTENDS Integers, Sequences, FiniteSets, TLC

\* ---------------------------------------------------------------- constants.py

LEFT == "LEFT"
RIGHT == "RIGHT"
BoatPosition == <<LEFT, RIGHT>>

WELCOME == "WELCOME"
PLAYING == "PLAYING"
EATING == "EATING"
WON == "WON"
LOST == "LOST"
GameScreen == {WELCOME, PLAYING, EATING, WON, LOST}

BOAT_LEFT_X == 320
BOAT_RIGHT_X == 680
BOAT_SPEED == 3
EATING_DURATION == 2000

\* ---------------------------------------------------------------- bounds

\* the counts given to the pure functions go this far below 0 and above 3
CountSlack == 1
\* crossings per game explored by the model
MaxMoves == 12
\* frame durations clock.tick(FPS) is taken to return, in ms
ShortFrame == 17
LongFrame == 500

\* ---------------------------------------------------------------- Python values

Return(v) == [raised |-> FALSE, value |-> v]
TypeError == [raised |-> TRUE, value |-> "TypeError"]

\* a Python int, and a bound method object (an attribute read without a call)
PyInt(n) == [tag |-> "int", v |-> n]
PyMethod(name) == [tag |-> "method", v |-> 0, name |-> name]

\* a > b: defined between ints; Python 3 raises TypeError for
\* '>' between 'method' and 'int', and between two methods
PyGt(a, b) ==
    IF a.tag = "int" /\ b.tag = "int" THEN Return(a.v > b.v) ELSE TypeError

\* ---------------------------------------------------------------- model.py: GameState

GameState(missionaries_left, cannibals_left, boat) ==
    [missionaries_left |-> missionaries_left,
     cannibals_left |-> cannibals_left,
     boat |-> boat]

missionaries_right(s) == 3 - s.missionaries_left

\* cannibals_right returning the left count
cannibals_right_as_left(s) == s.cannibals_left

cannibals_right(s) == 3 - s.cannibals_left

\* is_valid with lines 40-41 reading the right-bank counts by calling the
\* methods; differs from the source, which reads the method objects
is_valid_calling(s) ==
    IF ~(0 <= s.missionaries_left /\ s.missionaries_left <= 3) THEN Return(FALSE)
    ELSE IF ~(0 <= s.cannibals_left /\ s.cannibals_left <= 3) THEN Return(FALSE)
    ELSE IF s.missionaries_left > 0 /\ s.cannibals_left > s.missionaries_left
         THEN Return(FALSE)
    ELSE IF missionaries_right(s) > 0 /\ cannibals_right(s) > missionaries_right(s)
         THEN Return(FALSE)
    ELSE Return(TRUE)

\* GameState.is_valid.  m_right and c_right (lines 40-41) are the bound
\* methods themselves, not their results, so line 42 evaluates
\* `method > 0` first, which raises.
is_valid(s) ==
    IF ~(0 <= s.missionaries_left /\ s.missionaries_left <= 3) THEN Return(FALSE)
    ELSE IF ~(0 <= s.cannibals_left /\ s.cannibals_left <= 3) THEN Return(FALSE)
    ELSE LET m_left == s.missionaries_left
             c_left == s.cannibals_left
         IN  IF m_left > 0 /\ c_left > m_left THEN Return(FALSE)
             ELSE LET m_right == PyMethod("missionaries_right")
                      c_right == PyMethod("cannibals_right")
                      first == PyGt(m_right, PyInt(0))
                      second == PyGt(c_right, m_right)
                  IN  IF first.raised THEN TypeError
                      ELSE IF ~first.value THEN Return(TRUE)
                      ELSE IF second.raised THEN TypeError
                      ELSE IF second.value THEN Return(FALSE)
                      ELSE Return(TRUE)

is_goal(s) ==
    s.missionaries_left = 0 /\ s.cannibals_left = 0 /\ s.boat = RIGHT

\* ---------------------------------------------------------------- model.py: build_state_graph

possible_moves == <<<<1, 0>>, <<2, 0>>, <<0, 1>>, <<0, 2>>, <<1, 1>>>>

\* the k-th GameState of the three nested loops (lines 58-61), k in 0..31
loop_state(k) == GameState(k \div 8, (k \div 2) % 4, BoatPosition[(k % 2) + 1])

\* the inner loop (lines 66-84) from the i-th move on, transitions so far
\* in acc; an exception raised by new_state.is_valid() leaves the loop
RECURSIVE transitions_from(_, _, _)
transitions_from(s, i, acc) ==
    IF i > Len(possible_moves) THEN Return(acc)
    ELSE LET m_left == s.missionaries_left
             c_left == s.cannibals_left
             m_move == possible_moves[i][1]
             c_move == possible_moves[i][2]
             new_m == IF s.boat = LEFT THEN m_left - m_move ELSE m_left + m_move
             new_c == IF s.boat = LEFT THEN c_left - c_move ELSE c_left + c_move
             new_boat == IF s.boat = LEFT THEN RIGHT ELSE LEFT
             m_right == 3 - m_left
             c_right == 3 - c_left
             skip == IF s.boat = LEFT
                     THEN m_move > m_left \/ c_move > c_left
                     ELSE m_move > m_right \/ c_move > c_right
             new_state == GameState(new_m, new_c, new_boat)
             valid == is_valid(new_state)
         IN  IF skip THEN transitions_from(s, i + 1, acc)
             ELSE IF valid.raised THEN TypeError
             ELSE IF valid.value
                  THEN transitions_from(s, i + 1,
                           Append(acc, [move |-> possible_moves[i], state |-> new_state]))
             ELSE transitions_from(s, i + 1, acc)

\* the outer loops from the k-th state on; graph is the dict so far, as the
\* sequence of its entries in insertion order (GameState defines no __eq__
\* or __hash__, so every constructed state is a key of its own)
RECURSIVE graph_from(_, _)
graph_from(k, graph) ==
    IF k > 31 THEN Return(graph)
    ELSE LET s == loop_state(k)
             valid == is_valid(s)
             transitions == transitions_from(s, 1, <<>>)
         IN  IF valid.raised THEN TypeError
             ELSE IF ~valid.value THEN graph_from(k + 1, graph)
             ELSE IF transitions.raised THEN TypeError
             ELSE graph_from(k + 1,
                      Append(graph, [state |-> s, transitions |-> transitions.value]))

build_state_graph == graph_from(0, <<>>)

\* ---------------------------------------------------------------- model.py: Character, Boat

missionaries == <<"m0", "m1", "m2">>
cannibals == <<"c0", "c1", "c2">>

get_all_characters == missionaries \o cannibals

Range(seq) == {seq[i] : i \in 1..Len(seq)}

Characters == Range(get_all_characters)

char_type(char) == IF char \in Range(missionaries) THEN "missionary" ELSE "cannibal"

\* Character.__init__ with side = 'left': the logic fields of a character
Character == [side |-> "left", selected |-> FALSE, in_boat |-> FALSE, being_eaten |-> FALSE]

\* Boat.__init__
Boat == [x |-> BOAT_LEFT_X, target_x |-> BOAT_LEFT_X, is_moving |-> FALSE, passengers |-> <<>>]

\* Boat.move_to
move_to(b, position) ==
    [b EXCEPT !.target_x = IF position = LEFT THEN BOAT_LEFT_X ELSE BOAT_RIGHT_X,
              !.is_moving = TRUE]

Abs(n) == IF n < 0 THEN -n ELSE n

\* Boat.update: position and is_moving (lines 187-194)
boat_update(b) ==
    LET dx == b.target_x - b.x
    IN  IF Abs(dx) > 2
        THEN [b EXCEPT !.x = IF dx > 0 THEN b.x + BOAT_SPEED ELSE b.x - BOAT_SPEED,
                       !.is_moving = TRUE]
        ELSE [b EXCEPT !.x = b.target_x, !.is_moving = FALSE]

\* list.remove(x): the list without its first x
RECURSIVE remove(_, _)
remove(seq, x) ==
    IF seq = <<>> THEN <<>>
    ELSE IF Head(seq) = x THEN Tail(seq)
    ELSE <<Head(seq)>> \o remove(Tail(seq), x)

\* ---------------------------------------------------------------- controller.py: state

VARIABLES
    state,                \* GameController.state: the current GameState
    move_count,           \* GameController.move_count
    current_screen,       \* GameController.current_screen
    eating_timer,         \* GameController.eating_timer, in ms
    chars,                \* the six Character objects: side, selected, in_boat, being_eaten
    boat,                 \* GameController.boat: x, target_x, is_moving, passengers
    selected_characters,  \* GameController.selected_characters
    proc,                 \* run(): "running", "quitting" (running = False, frame not
                          \* finished), "exited", or "aborted" by an uncaught exception
    path,                 \* history: the GameStates committed since the last reset_game
    last,                 \* history: the last event handled and the controller before it
    arg,                  \* the GameState a pure function is applied to
    ret                   \* the function applied and its result

session == <<state, move_count, current_screen, eating_timer, chars, boat,
             selected_characters, path>>

vars == <<state, move_count, current_screen, eating_timer, chars, boat,
          selected_characters, proc, path, last, arg, ret>>

\* the controller's fields, as recorded in last.before
Snapshot ==
    [state |-> state, move_count |-> move_count, current_screen |-> current_screen,
     eating_timer |-> eating_timer, chars |-> chars, boat |-> boat,
     selected_characters |-> selected_characters, proc |-> proc]

Handled(event, char) == last' = [event |-> event, char |-> char, before |-> Snapshot]

\* ---------------------------------------------------------------- controller.py: handlers

\* reset_game without line 110: the Boat object is kept
reset_game_keeping_boat ==
    /\ state' = GameState(3, 3, LEFT)
    /\ move_count' = 0
    /\ current_screen' = PLAYING
    /\ eating_timer' = 0
    /\ chars' = [char \in Characters |-> Character]
    /\ boat' = boat
    /\ selected_characters' = <<>>
    /\ path' = <<>>

reset_game ==
    /\ state' = GameState(3, 3, LEFT)
    /\ move_count' = 0
    /\ current_screen' = PLAYING
    /\ eating_timer' = 0
    /\ chars' = [char \in Characters |-> Character]
    /\ boat' = Boat
    /\ selected_characters' = <<>>
    /\ path' = <<>>

\* handle_character_click without the capacity test of line 131
handle_character_click_no_limit(char) ==
    IF boat.is_moving THEN UNCHANGED session
    ELSE LET boat_side == IF state.boat = LEFT THEN "left" ELSE "right"
         IN  IF chars[char].in_boat
             THEN /\ chars' = [chars EXCEPT ![char] =
                                  [@ EXCEPT !.selected = FALSE, !.in_boat = FALSE,
                                            !.side = boat_side]]
                  /\ boat' = [boat EXCEPT !.passengers = remove(@, char)]
                  /\ selected_characters' = remove(selected_characters, char)
                  /\ UNCHANGED <<state, move_count, current_screen, eating_timer, path>>
             ELSE IF chars[char].side = boat_side
             THEN /\ chars' = [chars EXCEPT ![char] =
                                  [@ EXCEPT !.selected = TRUE, !.in_boat = TRUE]]
                  /\ boat' = [boat EXCEPT !.passengers = Append(@, char)]
                  /\ selected_characters' = Append(selected_characters, char)
                  /\ UNCHANGED <<state, move_count, current_screen, eating_timer, path>>
             ELSE UNCHANGED session

\* handle_character_click without the test of lines 119-120
handle_character_click_in_transit(char) ==
    LET boat_side == IF state.boat = LEFT THEN "left" ELSE "right"
    IN  IF chars[char].in_boat
        THEN /\ chars' = [chars EXCEPT ![char] =
                             [@ EXCEPT !.selected = FALSE, !.in_boat = FALSE,
                                       !.side = boat_side]]
             /\ boat' = [boat EXCEPT !.passengers = remove(@, char)]
             /\ selected_characters' = remove(selected_characters, char)
             /\ UNCHANGED <<state, move_count, current_screen, eating_timer, path>>
        ELSE IF chars[char].side = boat_side /\ Len(boat.passengers) < 2
        THEN /\ chars' = [chars EXCEPT ![char] =
                             [@ EXCEPT !.selected = TRUE, !.in_boat = TRUE]]
             /\ boat' = [boat EXCEPT !.passengers = Append(@, char)]
             /\ selected_characters' = Append(selected_characters, char)
             /\ UNCHANGED <<state, move_count, current_screen, eating_timer, path>>
        ELSE UNCHANGED session

handle_character_click(char) ==
    IF boat.is_moving THEN UNCHANGED session
    ELSE LET boat_side == IF state.boat = LEFT THEN "left" ELSE "right"
         IN  IF chars[char].in_boat
             THEN /\ chars' = [chars EXCEPT ![char] =
                                  [@ EXCEPT !.selected = FALSE, !.in_boat = FALSE,
                                            !.side = boat_side]]
                  /\ boat' = [boat EXCEPT !.passengers = remove(@, char)]
                  /\ selected_characters' = remove(selected_characters, char)
                  /\ UNCHANGED <<state, move_count, current_screen, eating_timer, path>>
             ELSE IF chars[char].side = boat_side /\ Len(boat.passengers) < 2
             THEN /\ chars' = [chars EXCEPT ![char] =
                                  [@ EXCEPT !.selected = TRUE, !.in_boat = TRUE]]
                  /\ boat' = [boat EXCEPT !.passengers = Append(@, char)]
                  /\ selected_characters' = Append(selected_characters, char)
                  /\ UNCHANGED <<state, move_count, current_screen, eating_timer, path>>
             ELSE UNCHANGED session

\* sum(1 for c in self.boat.passengers if c.char_type == kind)
count_type(passengers, kind) ==
    Cardinality({i \in 1..Len(passengers) : char_type(passengers[i]) = kind})

\* lines 142-154 with the two directions exchanged
crossed_state_swapped(s, passengers) ==
    LET m_count == count_type(passengers, "missionary")
        c_count == count_type(passengers, "cannibal")
    IN  IF s.boat = LEFT
        THEN GameState(s.missionaries_left + m_count, s.cannibals_left + c_count, RIGHT)
        ELSE GameState(s.missionaries_left - m_count, s.cannibals_left - c_count, LEFT)

\* lines 142-154: the GameState a crossing with these passengers commits
crossed_state(s, passengers) ==
    LET m_count == count_type(passengers, "missionary")
        c_count == count_type(passengers, "cannibal")
    IN  IF s.boat = LEFT
        THEN GameState(s.missionaries_left - m_count, s.cannibals_left - c_count, RIGHT)
        ELSE GameState(s.missionaries_left + m_count, s.cannibals_left + c_count, LEFT)

\* try_cross_river returning early when the new GameState is not safe on
\* both banks, as a lookup among the StateGraph edges would
try_cross_river_validated ==
    IF boat.is_moving \/ Len(boat.passengers) = 0 THEN UNCHANGED session
    ELSE LET new_state == crossed_state(state, boat.passengers)
             new_side == IF new_state.boat = LEFT THEN "left" ELSE "right"
         IN  IF ~is_valid_calling(new_state).value THEN UNCHANGED session
             ELSE /\ move_count < MaxMoves
                  /\ state' = new_state
                  /\ move_count' = move_count + 1
                  /\ boat' = move_to(boat, new_state.boat)
                  /\ chars' = [char \in Characters |->
                                  IF char \in Range(boat.passengers)
                                  THEN [chars[char] EXCEPT !.side = new_side]
                                  ELSE chars[char]]
                  /\ path' = Append(path, new_state)
                  /\ UNCHANGED <<current_screen, eating_timer, selected_characters>>

\* try_cross_river without the empty-boat test of lines 139-140
try_cross_river_empty_allowed ==
    IF boat.is_moving THEN UNCHANGED session
    ELSE LET new_state == crossed_state(state, boat.passengers)
             new_side == IF new_state.boat = LEFT THEN "left" ELSE "right"
         IN  /\ move_count < MaxMoves
             /\ state' = new_state
             /\ move_count' = move_count + 1
             /\ boat' = move_to(boat, new_state.boat)
             /\ chars' = [char \in Characters |->
                             IF char \in Range(boat.passengers)
                             THEN [chars[char] EXCEPT !.side = new_side]
                             ELSE chars[char]]
             /\ path' = Append(path, new_state)
             /\ UNCHANGED <<current_screen, eating_timer, selected_characters>>

\* try_cross_river without the moving-boat test of lines 139-140
try_cross_river_in_transit ==
    IF Len(boat.passengers) = 0 THEN UNCHANGED session
    ELSE LET new_state == crossed_state(state, boat.passengers)
             new_side == IF new_state.boat = LEFT THEN "left" ELSE "right"
         IN  /\ move_count < MaxMoves
             /\ state' = new_state
             /\ move_count' = move_count + 1
             /\ boat' = move_to(boat, new_state.boat)
             /\ chars' = [char \in Characters |->
                             IF char \in Range(boat.passengers)
                             THEN [chars[char] EXCEPT !.side = new_side]
                             ELSE chars[char]]
             /\ path' = Append(path, new_state)
             /\ UNCHANGED <<current_screen, eating_timer, selected_characters>>

\* try_cross_river without lines 159-161: the passengers' side is not updated
try_cross_river_sides_kept ==
    IF boat.is_moving \/ Len(boat.passengers) = 0 THEN UNCHANGED session
    ELSE LET new_state == crossed_state(state, boat.passengers)
         IN  /\ move_count < MaxMoves
             /\ state' = new_state
             /\ move_count' = move_count + 1
             /\ boat' = move_to(boat, new_state.boat)
             /\ path' = Append(path, new_state)
             /\ UNCHANGED <<chars, current_screen, eating_timer, selected_characters>>

try_cross_river ==
    IF boat.is_moving \/ Len(boat.passengers) = 0 THEN UNCHANGED session
    ELSE LET new_state == crossed_state(state, boat.passengers)
             new_side == IF new_state.boat = LEFT THEN "left" ELSE "right"
         IN  /\ move_count < MaxMoves
             /\ state' = new_state
             /\ move_count' = move_count + 1
             /\ boat' = move_to(boat, new_state.boat)
             /\ chars' = [char \in Characters |->
                             IF char \in Range(boat.passengers)
                             THEN [chars[char] EXCEPT !.side = new_side]
                             ELSE chars[char]]
             /\ path' = Append(path, new_state)
             /\ UNCHANGED <<current_screen, eating_timer, selected_characters>>

\* lines 168-177 with the two side names exchanged
losing_side_swapped(s) ==
    LET m_left == s.missionaries_left
        c_left == s.cannibals_left
        m_right == missionaries_right(s)
        c_right == cannibals_right(s)
    IN  IF m_right > 0 /\ c_right > m_right THEN "left"
        ELSE IF m_left > 0 /\ c_left > m_left THEN "right"
        ELSE "None"

\* lines 168-177
losing_side(s) ==
    LET m_left == s.missionaries_left
        c_left == s.cannibals_left
        m_right == missionaries_right(s)
        c_right == cannibals_right(s)
    IN  IF m_right > 0 /\ c_right > m_right THEN "right"
        ELSE IF m_left > 0 /\ c_left > m_left THEN "left"
        ELSE "None"

\* start_eating_animation, on the characters cs
start_eating_animation(cs) ==
    /\ current_screen' = EATING
    /\ eating_timer' = 0
    /\ chars' = [char \in Characters |->
                    IF char \in Range(missionaries) /\ cs[char].side = losing_side(state)
                    THEN [cs[char] EXCEPT !.being_eaten = TRUE]
                    ELSE cs[char]]

\* lines 193-196 without the elif branch: no loss is ever decided
crossing_outcome_no_loss(s) ==
    IF is_goal(s) THEN Return(WON)
    ELSE LET valid == is_valid(s)
         IN  IF valid.raised THEN TypeError
             ELSE Return(PLAYING)

\* lines 193-196: what finish_crossing decides for GameState s:
\* WON, EATING, PLAYING (nothing to do), or the exception of is_valid
crossing_outcome(s) ==
    IF is_goal(s) THEN Return(WON)
    ELSE LET valid == is_valid(s)
         IN  IF valid.raised THEN TypeError
             ELSE IF ~valid.value THEN Return(EATING)
             ELSE Return(PLAYING)

\* finish_crossing, the boat being b (boat.update has just stopped it)
finish_crossing(b) ==
    LET unloaded == [char \in Characters |->
                        IF char \in Range(b.passengers)
                        THEN [chars[char] EXCEPT !.in_boat = FALSE, !.selected = FALSE]
                        ELSE chars[char]]
        outcome == crossing_outcome(state)
    IN  /\ boat' = [b EXCEPT !.passengers = <<>>]
        /\ selected_characters' = <<>>
        /\ IF outcome.raised
           THEN /\ proc' = "aborted"
                /\ chars' = unloaded
                /\ UNCHANGED <<current_screen, eating_timer>>
           ELSE /\ proc' = IF proc = "quitting" THEN "exited" ELSE proc
                /\ IF outcome.value = WON
                   THEN /\ current_screen' = WON
                        /\ chars' = unloaded
                        /\ UNCHANGED eating_timer
                   ELSE IF outcome.value = EATING
                   THEN start_eating_animation(unloaded)
                   ELSE /\ chars' = unloaded
                        /\ UNCHANGED <<current_screen, eating_timer>>

\* update(dt), dt in ms; ends the frame in which running became False
update(dt) ==
    IF current_screen = EATING
    THEN /\ eating_timer' = eating_timer + dt
         /\ current_screen' = IF eating_timer + dt >= EATING_DURATION + 500
                              THEN LOST ELSE current_screen
         /\ proc' = IF proc = "quitting" THEN "exited" ELSE proc
         /\ UNCHANGED <<state, move_count, chars, boat, selected_characters, path>>
    ELSE IF current_screen # PLAYING
    THEN /\ proc' = IF proc = "quitting" THEN "exited" ELSE proc
         /\ UNCHANGED session
    ELSE LET was_moving == boat.is_moving
             b == boat_update(boat)
         IN  IF was_moving /\ ~b.is_moving
             THEN /\ finish_crossing(b)
                  /\ UNCHANGED <<state, move_count, path>>
             ELSE /\ boat' = b
                  /\ proc' = IF proc = "quitting" THEN "exited" ELSE proc
                  /\ UNCHANGED <<state, move_count, current_screen, eating_timer,
                                 chars, selected_characters, path>>

\* ---------------------------------------------------------------- controller.py: run

\* events are handled while the frame loop runs, also after running became
\* False in the same frame
Handling == proc \in {"running", "quitting"}

\* pygame.QUIT, K_ESCAPE, K_q
Quit ==
    /\ Handling
    /\ proc' = "quitting"
    /\ Handled("quit", "none")
    /\ UNCHANGED <<session, arg, ret>>

\* KEYDOWN K_r
KeyR ==
    /\ Handling
    /\ reset_game
    /\ Handled("key_r", "none")
    /\ UNCHANGED <<proc, arg, ret>>

\* KEYDOWN K_SPACE
KeySpace ==
    /\ Handling
    /\ IF current_screen = WELCOME THEN reset_game
       ELSE IF current_screen = PLAYING THEN try_cross_river
       ELSE UNCHANGED session
    /\ Handled("key_space", "none")
    /\ UNCHANGED <<proc, arg, ret>>

\* MOUSEBUTTONDOWN, button 1, on the boat
ClickBoat ==
    /\ Handling
    /\ IF current_screen = WELCOME THEN reset_game
       ELSE IF current_screen = PLAYING THEN try_cross_river
       ELSE UNCHANGED session
    /\ Handled("click_boat", "none")
    /\ UNCHANGED <<proc, arg, ret>>

\* ClickCharacter without the screen test of line 244
ClickCharacter_any_screen(char) ==
    /\ Handling
    /\ IF current_screen = WELCOME THEN reset_game
       ELSE handle_character_click(char)
    /\ Handled("click_character", char)
    /\ UNCHANGED <<proc, arg, ret>>

\* MOUSEBUTTONDOWN, button 1, off the boat and on character char
ClickCharacter(char) ==
    /\ Handling
    /\ IF current_screen = WELCOME THEN reset_game
       ELSE IF current_screen = PLAYING THEN handle_character_click(char)
       ELSE UNCHANGED session
    /\ Handled("click_character", char)
    /\ UNCHANGED <<proc, arg, ret>>

\* one frame's update(dt)
Frame ==
    /\ Handling
    /\ \E dt \in {ShortFrame, LongFrame} : update(dt)
    /\ Handled("frame", "none")
    /\ UNCHANGED <<arg, ret>>

\* The controller as GameController.__init__ sets it up in lines 38-40: the
\* fields of reset_game, on the welcome screen.  Line 33 (build_state_graph)
\* is specified by SpecPure: it raises, and no handler reads state_graph.
Init ==
    /\ state = GameState(3, 3, LEFT)
    /\ move_count = 0
    /\ current_screen = WELCOME
    /\ eating_timer = 0
    /\ chars = [char \in Characters |-> Character]
    /\ boat = Boat
    /\ selected_characters = <<>>
    /\ proc = "running"
    /\ path = <<>>
    /\ last = [event |-> "init", char |-> "none", before |-> Snapshot]
    /\ arg = GameState(3, 3, LEFT)
    /\ ret = [fn |-> "none", result |-> Return(FALSE)]

Next ==
    \/ Quit
    \/ KeyR
    \/ KeySpace
    \/ ClickBoat
    \/ \E char \in Characters : ClickCharacter(char)
    \/ Frame

Spec == Init /\ [][Next]_vars

\* run: every iteration of the loop calls update, so frames keep occurring
\* for as long as the loop runs
SpecLive == Spec /\ WF_vars(Frame)

\* ---------------------------------------------------------------- the pure functions

\* a GameState drawn from the bounded counts, no function applied yet
PureInit ==
    /\ state = GameState(3, 3, LEFT)
    /\ move_count = 0
    /\ current_screen = WELCOME
    /\ eating_timer = 0
    /\ chars = [char \in Characters |-> Character]
    /\ boat = Boat
    /\ selected_characters = <<>>
    /\ proc = "running"
    /\ path = <<>>
    /\ last = [event |-> "init", char |-> "none", before |-> Snapshot]
    /\ \E m \in (0 - CountSlack)..(3 + CountSlack),
          c \in (0 - CountSlack)..(3 + CountSlack), b \in {LEFT, RIGHT} :
           arg = GameState(m, c, b)
    /\ ret = [fn |-> "none", result |-> Return(FALSE)]

\* arg.is_valid()
CallIsValid ==
    /\ ret.fn = "none"
    /\ ret' = [fn |-> "is_valid", result |-> is_valid(arg)]
    /\ UNCHANGED <<session, proc, last, arg>>

\* the outcome finish_crossing evaluates for arg (lines 193-196)
CallCrossingOutcome ==
    /\ ret.fn = "none"
    /\ ret' = [fn |-> "finish_crossing", result |-> crossing_outcome(arg)]
    /\ UNCHANGED <<session, proc, last, arg>>

\* build_state_graph()
CallBuildStateGraph ==
    /\ ret.fn = "none"
    /\ ret' = [fn |-> "build_state_graph", result |-> build_state_graph]
    /\ UNCHANGED <<session, proc, last, arg>>

PureNext ==
    \/ CallIsValid
    \/ CallCrossingOutcome
    \/ CallBuildStateGraph

SpecPure == PureInit /\ [][PureNext]_vars

\* ---------------------------------------------------------------- properties

InRange(s) ==
    /\ s.missionaries_left \in 0..3
    /\ s.cannibals_left \in 0..3

\* no bank with missionaries > 0 and cannibals > missionaries
LeftBankSafe(s) == s.missionaries_left = 0 \/ s.cannibals_left <= s.missionaries_left
RightBankSafe(s) ==
    (3 - s.missionaries_left) = 0 \/ (3 - s.cannibals_left) <= (3 - s.missionaries_left)
BothBanksSafe(s) == LeftBankSafe(s) /\ RightBankSafe(s)

\* C1: is_valid returns true exactly when the counts are in 0..3 and both
\* banks are safe, and false otherwise.
C1_IsValidIffBothBanksSafe ==
    ret.fn = "is_valid" =>
        /\ ~ret.result.raised
        /\ ret.result.value = (InRange(arg) /\ BothBanksSafe(arg))

\* C2: a crossing whose resulting Configuration is not the goal and is unsafe
\* on either bank is resolved as a loss (the eating screen that ends in Lost).
C2_UnsafeCrossingIsLost ==
    (ret.fn = "finish_crossing" /\ InRange(arg) /\ ~is_goal(arg) /\ ~BothBanksSafe(arg)) =>
        /\ ~ret.result.raised
        /\ ret.result.value = EATING

\* C5: build_state_graph yields a graph all of whose keys are safe on both
\* banks, and every edge's result is safe on both banks and equal in value
\* to a key.
C5_GraphSafetyClosure ==
    ret.fn = "build_state_graph" =>
        /\ ~ret.result.raised
        /\ \A i \in 1..Len(ret.result.value) :
              LET entry == ret.result.value[i]
              IN  /\ InRange(entry.state) /\ BothBanksSafe(entry.state)
                  /\ \A j \in 1..Len(entry.transitions) :
                        LET target == entry.transitions[j].state
                        IN  /\ InRange(target) /\ BothBanksSafe(target)
                            /\ \E k \in 1..Len(ret.result.value) :
                                  ret.result.value[k].state = target

\* one solution in 11 crossings: the GameStates it commits, in order
Canonical ==
    <<GameState(3, 1, RIGHT), GameState(3, 2, LEFT), GameState(3, 0, RIGHT),
      GameState(3, 1, LEFT), GameState(1, 1, RIGHT), GameState(2, 2, LEFT),
      GameState(0, 2, RIGHT), GameState(0, 3, LEFT), GameState(0, 1, RIGHT),
      GameState(0, 2, LEFT), GameState(0, 0, RIGHT)>>

IsPrefix(p, q) == Len(p) <= Len(q) /\ \A i \in 1..Len(p) : p[i] = q[i]

\* C4: driving the canonical solution, the session is Playing once each of
\* the first 10 crossings has arrived, and Won with Configuration (0,0,RIGHT)
\* and moveCount 11 once the 11th has.
C4_CanonicalSolutionWins ==
    (Len(path) >= 1 /\ IsPrefix(path, Canonical) /\ ~boat.is_moving) =>
        /\ proc # "aborted"
        /\ move_count = Len(path)
        /\ state = Canonical[Len(path)]
        /\ current_screen = IF Len(path) = 11 THEN WON ELSE PLAYING

\* a crossing was requested with passengers aboard, Playing, the boat idle
CrossRequested ==
    /\ last.event \in {"key_space", "click_boat"}
    /\ last.before.current_screen = PLAYING
    /\ ~last.before.boat.is_moving
    /\ Len(last.before.boat.passengers) > 0

\* the Configuration that request asks for: the boarded missionaries and
\* cannibals leave the boat's bank, the boat changes side
RequestedState ==
    LET before == last.before.state
        aboard == Range(last.before.boat.passengers)
        m == Cardinality(aboard \cap Range(missionaries))
        c == Cardinality(aboard \cap Range(cannibals))
    IN  IF before.boat = LEFT
        THEN [missionaries_left |-> before.missionaries_left - m,
              cannibals_left |-> before.cannibals_left - c, boat |-> RIGHT]
        ELSE [missionaries_left |-> before.missionaries_left + m,
              cannibals_left |-> before.cannibals_left + c, boat |-> LEFT]

IllegalRequested ==
    CrossRequested /\ ~(InRange(RequestedState) /\ BothBanksSafe(RequestedState))

\* C6 as stated: a crossing whose move is no StateGraph edge (its result is
\* not safe) is rejected and leaves Configuration, boarding set, move
\* counter and session state unchanged.
C6_IllegalMoveRejected ==
    IllegalRequested =>
        /\ state = last.before.state
        /\ boat = last.before.boat
        /\ chars = last.before.chars
        /\ move_count = last.before.move_count
        /\ current_screen = last.before.current_screen

\* C6 amended: such a crossing is committed like any other: the
\* Configuration is replaced, the move counter incremented and the boat sets
\* off with the boarding set aboard, the session still Playing.
C6_UnsafeMoveCommitted ==
    IllegalRequested =>
        /\ state = RequestedState
        /\ move_count = last.before.move_count + 1
        /\ boat.is_moving
        /\ boat.passengers = last.before.boat.passengers
        /\ current_screen = PLAYING

C6_Witness == IllegalRequested

\* C7 as stated: whenever the session reports Playing, the Configuration is
\* neither the goal nor unsafe.
C7_PlayingIsSettled ==
    current_screen = PLAYING => (~is_goal(state) /\ BothBanksSafe(state))

\* C7 amended: whenever the session reports Playing and the boat is not in
\* transit, the Configuration is neither the goal nor unsafe.
C7_PlayingIdleIsSettled ==
    (current_screen = PLAYING /\ ~boat.is_moving) =>
        (~is_goal(state) /\ BothBanksSafe(state))

C7_Witness ==
    /\ current_screen = PLAYING
    /\ ~boat.is_moving
    /\ move_count >= 1
    /\ last.event = "frame"
    /\ last.before.boat.is_moving

\* C8: every bank count of the Configuration is in 0..3 and the two banks'
\* counts add up to 3, for missionaries and for cannibals.
C8_Conservation ==
    /\ state.missionaries_left \in 0..3
    /\ state.cannibals_left \in 0..3
    /\ missionaries_right(state) \in 0..3
    /\ cannibals_right(state) \in 0..3
    /\ state.missionaries_left + missionaries_right(state) = 3
    /\ state.cannibals_left + cannibals_right(state) = 3

C8_Witness == CrossRequested /\ move_count = 1 /\ state # last.before.state

\* C9: the boarding set has at most 2 tokens and every boarded token's bank
\* is the bank of the current boatSide, in transit too.
C9_BoardingInvariant ==
    /\ Len(boat.passengers) <= 2
    /\ \A i \in 1..Len(boat.passengers) :
          chars[boat.passengers[i]].side = (IF state.boat = LEFT THEN "left" ELSE "right")

C9_Witness == boat.is_moving /\ Len(boat.passengers) = 2 /\ state.boat = RIGHT

\* the state reset_game is to yield, read from a record of the controller's fields
InitialPlaying(s) ==
    /\ s.state = [missionaries_left |-> 3, cannibals_left |-> 3, boat |-> LEFT]
    /\ s.move_count = 0
    /\ s.current_screen = PLAYING
    /\ s.eating_timer = 0
    /\ \A char \in Characters :
          /\ s.chars[char].side = "left"
          /\ ~s.chars[char].in_boat
          /\ ~s.chars[char].selected
          /\ ~s.chars[char].being_eaten
    /\ s.boat.passengers = <<>>
    /\ ~s.boat.is_moving
    /\ s.boat.x = BOAT_LEFT_X
    /\ s.boat.target_x = BOAT_LEFT_X
    /\ s.selected_characters = <<>>

\* C10: reset from any state yields Configuration (3,3,LEFT), an empty
\* boarding set, moveCount 0, all six tokens on the left and not eaten, the
\* boat idle and the state Playing (so a second reset yields it again), and
\* the frame after a reset evaluates no crossing: it leaves all of that as it is.
C10_ResetYieldsInitial ==
    /\ last.event = "key_r" => InitialPlaying(Snapshot)
    /\ (last.event = "frame" /\ InitialPlaying(last.before)) => InitialPlaying(Snapshot)

C10_Witness ==
    /\ last.event = "key_r"
    /\ last.before.boat.is_moving
    /\ Len(last.before.boat.passengers) = 2

\* a toggleBoard, attemptCrossing or tick has just been handled
SessionOperation ==
    last.event \in {"click_character", "key_space", "click_boat", "frame"}

\* C11: once the session is Won or Lost, no toggleBoard, attemptCrossing or
\* tick changes the Configuration, the boarding set, the tokens, the move
\* counter or the session state (on the eating screen that precedes Lost the
\* same holds, but for the screen going on to Lost); reset re-enters Playing
\* with the initial Configuration.
C11_TerminalUntilReset ==
    /\ (SessionOperation /\ last.before.current_screen \in {WON, LOST}) =>
          /\ state = last.before.state
          /\ boat = last.before.boat
          /\ chars = last.before.chars
          /\ move_count = last.before.move_count
          /\ current_screen = last.before.current_screen
    /\ (SessionOperation /\ last.before.current_screen = EATING) =>
          /\ state = last.before.state
          /\ boat = last.before.boat
          /\ chars = last.before.chars
          /\ move_count = last.before.move_count
          /\ current_screen \in {EATING, LOST}
    /\ (last.event = "key_r" /\ last.before.current_screen \in {EATING, WON, LOST}) =>
          InitialPlaying(Snapshot)

C11_Witness ==
    /\ last.event = "click_character"
    /\ last.before.current_screen = LOST
    /\ last.before.chars[last.char].side = "right"

\* the frame just handled brought the boat to the other bank
Arrived ==
    /\ last.event = "frame"
    /\ last.before.boat.is_moving
    /\ ~boat.is_moving

\* C13: an accepted crossing replaces the Configuration by the requested one,
\* adds exactly 1 to the move counter and moves exactly the boarded tokens to
\* the destination bank; when the boat arrives the boarding set is empty, and
\* at a safe Configuration short of the goal the session goes on, Playing,
\* as in (3,3,LEFT) with 2 cannibals aboard giving (3,1,RIGHT), Playing,
\* 1 move.
C13_AcceptedCrossing ==
    /\ CrossRequested =>
          /\ state = RequestedState
          /\ move_count = last.before.move_count + 1
          /\ \A char \in Characters :
                chars[char].side =
                    IF char \in Range(last.before.boat.passengers)
                    THEN (IF state.boat = LEFT THEN "left" ELSE "right")
                    ELSE last.before.chars[char].side
    /\ Arrived =>
          /\ boat.passengers = <<>>
          /\ \A char \in Characters : ~chars[char].in_boat
          /\ state = last.before.state
          /\ move_count = last.before.move_count
          /\ (BothBanksSafe(state) /\ ~is_goal(state)) =>
                (current_screen = PLAYING /\ proc # "aborted")

\* a token was clicked on a screen other than the welcome screen, where a
\* click starts the game instead
ToggleRequested ==
    /\ last.event = "click_character"
    /\ last.before.current_screen # WELCOME

\* C14: toggleBoard(entity) never changes the Configuration, the move
\* counter, the session state, the boat's place or any other token. Playing
\* with the boat at rest, a boarded entity leaves the boarding set and stays
\* on the boat's bank; an entity on the boat's bank joins a boarding set of
\* fewer than 2; anything else changes nothing. With the boat under way or
\* the session not Playing nothing changes at all.
C14_ToggleBoard ==
    ToggleRequested =>
        LET before == last.before
            entity == last.char
            aboard == Range(before.boat.passengers)
            boat_bank == IF before.state.boat = LEFT THEN "left" ELSE "right"
        IN  /\ state = before.state
            /\ move_count = before.move_count
            /\ current_screen = before.current_screen
            /\ [boat EXCEPT !.passengers = <<>>] = [before.boat EXCEPT !.passengers = <<>>]
            /\ \A other \in Characters \ {entity} : chars[other] = before.chars[other]
            /\ IF before.current_screen = PLAYING /\ ~before.boat.is_moving
               THEN IF entity \in aboard
                    THEN /\ Range(boat.passengers) = aboard \ {entity}
                         /\ Len(boat.passengers) = Len(before.boat.passengers) - 1
                         /\ ~chars[entity].in_boat
                         /\ chars[entity].side = boat_bank
                    ELSE IF before.chars[entity].side = boat_bank /\ Cardinality(aboard) < 2
                    THEN /\ Range(boat.passengers) = aboard \cup {entity}
                         /\ Len(boat.passengers) = Len(before.boat.passengers) + 1
                         /\ chars[entity].in_boat
                         /\ chars[entity].side = boat_bank
                    ELSE boat = before.boat /\ chars = before.chars
               ELSE boat = before.boat /\ chars = before.chars

\* a boarded token was clicked, Playing, the boat at rest with two aboard
C14_Witness ==
    /\ ToggleRequested
    /\ last.before.current_screen = PLAYING
    /\ ~last.before.boat.is_moving
    /\ Len(last.before.boat.passengers) = 2
    /\ last.char \in Range(last.before.boat.passengers)
    /\ Len(boat.passengers) = 1

\* a crossing was requested with nobody aboard, on a screen other than the
\* welcome screen, where SPACE and a click start the game instead
EmptyCrossRequested ==
    /\ last.event \in {"key_space", "click_boat"}
    /\ last.before.current_screen # WELCOME
    /\ Len(last.before.boat.passengers) = 0

\* C15: attemptCrossing() with an empty boarding set changes nothing:
\* Configuration and boat side, move counter, token banks and session state
\* stay as they were and the boat does not start moving.
C15_EmptyCrossingNoOp ==
    EmptyCrossRequested =>
        /\ state = last.before.state
        /\ move_count = last.before.move_count
        /\ current_screen = last.before.current_screen
        /\ chars = last.before.chars
        /\ boat = last.before.boat

\* Playing, boat at rest and empty, a crossing requested
C15_Witness ==
    /\ EmptyCrossRequested
    /\ last.before.current_screen = PLAYING
    /\ ~last.before.boat.is_moving
    /\ ~boat.is_moving

\* the banks of s with missionaries > 0 and cannibals > missionaries
UnsafeBanks(s) ==
    {bank \in {"left", "right"} :
        IF bank = "left" THEN ~LeftBankSafe(s) ELSE ~RightBankSafe(s)}

\* C16: when the boat arrives at an unsafe Configuration the session is lost
\* (the eating screen that ends in Lost), and while it is lost exactly one
\* bank has missionaries > 0 and cannibals > missionaries, and the
\* missionaries marked as eaten are exactly the missionary tokens on that
\* bank; no cannibal is marked.
C16_LosingBank ==
    /\ (Arrived /\ ~BothBanksSafe(state)) => current_screen = EATING
    /\ current_screen \in {EATING, LOST} =>
          /\ Cardinality(UnsafeBanks(state)) = 1
          /\ \A char \in Characters :
                chars[char].being_eaten <=>
                    (char \in Range(missionaries) /\ chars[char].side \in UnsafeBanks(state))
          /\ \E char \in Range(missionaries) : chars[char].being_eaten

\* 2 missionaries crossed from (3,3,LEFT): (1,3,RIGHT), lost on the left bank
C16_Witness ==
    /\ Arrived
    /\ state = GameState(1, 3, RIGHT)
    /\ current_screen = EATING
    /\ UnsafeBanks(state) = {"left"}

\* the two losing-side tests of start_eating_animation
LeftTest(s) == s.missionaries_left > 0 /\ s.cannibals_left > s.missionaries_left
RightTest(s) ==
    missionaries_right(s) > 0 /\ cannibals_right(s) > missionaries_right(s)

\* C17: in every reachable Configuration, and so after every committed
\* crossing, at most one bank has missionaries > 0 and cannibals >
\* missionaries: the two losing-side tests are never both true; the same
\* holds of every Configuration with counts in 0..3, reachable or not.
C17_AtMostOneUnsafeBank ==
    /\ ~(LeftTest(state) /\ RightTest(state))
    /\ \A m \in 0..3, c \in 0..3 :
          ~(LeftTest(GameState(m, c, state.boat)) /\ RightTest(GameState(m, c, state.boat)))

\* a crossing has just been committed that leaves one bank unsafe
C17_Witness ==
    /\ CrossRequested
    /\ state = RequestedState
    /\ LeftTest(state)
    /\ ~RightTest(state)

\* C18: round trip from the start of a game. Once the first crossing has
\* arrived with the session Playing, the session goes on so that the same
\* tokens can board and cross back; once they have, the Configuration is
\* (3,3,LEFT) again, every token is on its original bank, the move counter
\* is 2 and the session is Playing, as from (3,1,RIGHT) with the 2 cannibals
\* crossing back.
C18_RoundTrip ==
    /\ (Len(path) = 1 /\ ~boat.is_moving /\ current_screen = PLAYING) =>
          proc # "aborted"
    /\ (Len(path) = 2 /\ Arrived
            /\ \A char \in Characters : chars[char].side = "left") =>
          /\ state = GameState(3, 3, LEFT)
          /\ move_count = 2
          /\ boat.passengers = <<>>
          /\ current_screen = PLAYING
          /\ proc # "aborted"

\* the reference algorithm: the fixed move order, when a move can be made
\* from s, and the Configuration it leads to
MoveOrder == <<<<1, 0>>, <<2, 0>>, <<0, 1>>, <<0, 2>>, <<1, 1>>>>

Feasible(s, mv) ==
    IF s.boat = LEFT
    THEN mv[1] <= s.missionaries_left /\ mv[2] <= s.cannibals_left
    ELSE mv[1] <= 3 - s.missionaries_left /\ mv[2] <= 3 - s.cannibals_left

MoveResult(s, mv) ==
    IF s.boat = LEFT
    THEN [missionaries_left |-> s.missionaries_left - mv[1],
          cannibals_left |-> s.cannibals_left - mv[2], boat |-> RIGHT]
    ELSE [missionaries_left |-> s.missionaries_left + mv[1],
          cannibals_left |-> s.cannibals_left + mv[2], boat |-> LEFT]

ReferenceEdges(s) ==
    LET keep(mv) == Feasible(s, mv) /\ BothBanksSafe(MoveResult(s, mv))
        kept == SelectSeq(MoveOrder, keep)
    IN  [i \in 1..Len(kept) |-> [move |-> kept[i], state |-> MoveResult(s, kept[i])]]

Configurations ==
    {[missionaries_left |-> m, cannibals_left |-> c, boat |-> b] :
        m \in 0..3, c \in 0..3, b \in {LEFT, RIGHT}}

\* C19: build_state_graph yields, for every safe source Configuration, an
\* entry whose edge list is exactly the moves of the fixed order
\* (1,0),(2,0),(0,1),(0,2),(1,1) that the boat's bank can supply and whose
\* result is safe, in that order, each with its result.
C19_GraphMatchesReference ==
    ret.fn = "build_state_graph" =>
        /\ ~ret.result.raised
        /\ \A s \in Configurations :
              BothBanksSafe(s) =>
                  /\ \E i \in 1..Len(ret.result.value) : ret.result.value[i].state = s
                  /\ \A i \in 1..Len(ret.result.value) :
                        ret.result.value[i].state = s =>
                            ret.result.value[i].transitions = ReferenceEdges(s)

\* the Configurations reached from those in seen along the edges of graph
RECURSIVE ReachableFrom(_, _)
ReachableFrom(graph, seen) ==
    LET sources == {i \in 1..Len(graph) : graph[i].state \in seen}
        targets == UNION {{graph[i].transitions[j].state :
                              j \in 1..Len(graph[i].transitions)} : i \in sources}
    IN  IF targets \subseteq seen THEN seen
        ELSE ReachableFrom(graph, seen \cup targets)

\* C20: in the graph build_state_graph yields, every safe Configuration
\* reachable from (3,3,LEFT) along edges, the goal (0,0,RIGHT) among them,
\* has an entry with a non-empty edge list.
C20_ReachableHaveEdges ==
    ret.fn = "build_state_graph" =>
        /\ ~ret.result.raised
        /\ LET graph == ret.result.value
               reached == ReachableFrom(graph, {GameState(3, 3, LEFT)})
           IN  /\ GameState(0, 0, RIGHT) \in reached
               /\ \A s \in reached :
                     BothBanksSafe(s) =>
                         \E i \in 1..Len(graph) :
                             graph[i].state = s /\ Len(graph[i].transitions) > 0

\* the operation just handled committed a crossing
Committed == last.event # "init" /\ move_count = last.before.move_count + 1

\* the frame just handled evaluated a crossing's outcome (finish_crossing
\* unloaded the boat)
Evaluated ==
    /\ last.event = "frame"
    /\ Len(last.before.boat.passengers) > 0
    /\ Len(boat.passengers) = 0

\* C21: while the boat is moving the session is Playing with its passengers
\* aboard, and toggleBoard and attemptCrossing requests change nothing. A
\* crossing is committed only with the boat at rest and sets it moving; the
\* boat starts moving only by a commit; it comes to rest again only by the
\* frame that evaluates the outcome or by a reset; and an outcome is
\* evaluated only for a moving boat, which it leaves at rest. So commits and
\* outcome evaluations alternate unless a reset intervenes.
C21_CrossingInFlight ==
    /\ boat.is_moving => (current_screen = PLAYING /\ Len(boat.passengers) > 0)
    /\ (last.event \in {"click_character", "key_space", "click_boat"}
            /\ last.before.boat.is_moving) =>
          /\ state = last.before.state
          /\ move_count = last.before.move_count
          /\ current_screen = last.before.current_screen
          /\ chars = last.before.chars
          /\ boat = last.before.boat
    /\ Committed =>
          /\ last.event \in {"key_space", "click_boat"}
          /\ ~last.before.boat.is_moving
          /\ boat.is_moving
    /\ (last.event # "init" /\ ~last.before.boat.is_moving /\ boat.is_moving) =>
          Committed
    /\ (last.event # "init" /\ last.before.boat.is_moving /\ ~boat.is_moving) =>
          (Evaluated \/ last.event = "key_r")
    /\ Evaluated => (last.before.boat.is_moving /\ ~boat.is_moving)
    /\ (last.event = "frame" /\ last.before.boat.is_moving) =>
          /\ Range(boat.passengers) \in {Range(last.before.boat.passengers), {}}
          /\ move_count = last.before.move_count
          /\ state = last.before.state

\* a crossing was requested while the boat was under way with 2 aboard
C21_Witness ==
    /\ last.event \in {"key_space", "click_boat"}
    /\ last.before.boat.is_moving
    /\ Len(last.before.boat.passengers) = 2
    /\ last.before.boat.x > BOAT_LEFT_X

\* the tokens of one kind whose bank is left
TokensLeft(kind) == {char \in Range(kind) : chars[char].side = "left"}

\* C22: in every state the number of missionary tokens whose bank is left is
\* the Configuration's missionaries_left and the number of cannibal tokens
\* whose bank is left is its cannibals_left; a boarded token counts on the
\* bank it boarded from until the crossing is committed.
C22_TokensMatchCounts ==
    /\ Cardinality(TokensLeft(missionaries)) = state.missionaries_left
    /\ Cardinality(TokensLeft(cannibals)) = state.cannibals_left
    /\ (~boat.is_moving /\ current_screen = PLAYING) =>
          \A char \in Range(boat.passengers) :
              chars[char].side = (IF state.boat = LEFT THEN "left" ELSE "right")

\* a crossing with one missionary and one cannibal has just been committed
C22_Witness ==
    /\ CrossRequested
    /\ state = GameState(2, 2, RIGHT)
    /\ Cardinality(TokensLeft(missionaries)) = 2
    /\ Cardinality(TokensLeft(cannibals)) = 2

\* the crossing is over and the session has gone on from it
Resolved ==
    /\ proc # "aborted"
    /\ ~boat.is_moving
    /\ Len(boat.passengers) = 0
    /\ \A char \in Characters : ~chars[char].in_boat
    /\ current_screen \in {WON, LOST, PLAYING}

\* C23: with frames occurring, a committed crossing (the boat moving) leads
\* to the boat at rest with its passengers unloaded and the session Won,
\* Lost (through the eating screen) or Playing with an empty boarding set,
\* unless a reset or a quit comes first.
C23_CrossingResolves ==
    (boat.is_moving /\ proc = "running") ~>
        (Resolved \/ last.event = "key_r" \/ proc \in {"quitting", "exited"})

====
